---- MODULE Spec2Model ----
(***************************************************************************)
(* Scroll-driven portfolio page: the progress mapper of useScrollProgress  *)
(* (raw scroll fraction -> spring-smoothed fraction -> per-section         *)
(* opacity / translation / pointer-events), the wave content opacity of    *)
(* WaveTransition, and the theme selection of useTheme.                    *)
(*                                                                         *)
(* Real numbers are fixed-point integers: a real r is stored as r * Scale. *)
(* One unit of Scale is a fraction 1/SubSteps of the spring's restDelta.   *)
(***************************************************************************)
EXTENDS Integers, Sequences, FiniteSets, TLC

VARIABLES
    innerWidth,     \* window.innerWidth read when the hook renders
    raw,            \* scrollYProgress
    smoothed,       \* smoothProgress
    velocity,       \* velocity of smoothProgress, Scale units per second
    scrolls,        \* number of scroll events so far
    restStart,      \* the spring was at rest when raw last changed
    sceneOpacity1, scene1TranslateY, sceneOpacity3, scene3PointerEvents,
    sceneOpacity4, contentOpacity,
    waveY,          \* vertical position of the wave, in vh
    sunOpacity,     \* opacity of the sun and the waves of the background
    cityOpacity,    \* opacity of the skyline of the background
    contactPointerEvents,  \* pointer-events of the contact section's content
    phase,          \* "start" | "failed" | "loading" (App not rendered yet)
                    \* | "rendered" (theme effect pending) | "idle"
    theme,          \* useState<Theme>
    storage,        \* localStorage item 'theme'
    dataTheme,      \* data-theme attribute of document.documentElement
    prefersDark,    \* matchMedia('(prefers-color-scheme: dark)').matches
    toggles,        \* toggleTheme calls since the page was loaded
    reloads,        \* page loads after the first
    themeAtUnload,  \* the theme in effect when the page was last unloaded
    themeAtMount,   \* the theme App first rendered with on this page load
    decorations,    \* theme-specific decorations the latest render put out
    hasRoot,        \* the document has an element with id 'root'
    rootCreated,    \* ReactDOM.createRoot has been called
    renderCalls,    \* number of root.render(<App />) calls of this page load
    startupError,   \* message of the error thrown by the entry point
    seed,           \* state of the random source behind Math.random
    draws,          \* number of Math.random() calls of this page load
    generations,    \* generateBuildings calls of this page load
    buildingCount, windowsPerBuilding,  \* arguments of the latest call
    buildings,      \* the list the latest call returned
    memoClass,      \* viewport class the memoized list was computed for
    hoje,           \* the local date when constants/portfolio is evaluated
    evaluated,      \* constants/portfolio has been evaluated
    age             \* PERSONAL_INFO.age

scrollVars == <<innerWidth, raw, smoothed, velocity, scrolls, restStart>>
sceneVars  == <<sceneOpacity1, scene1TranslateY, sceneOpacity3,
                scene3PointerEvents, sceneOpacity4, contentOpacity, waveY,
                sunOpacity, cityOpacity, contactPointerEvents>>
themeVars  == <<phase, theme, storage, dataTheme, prefersDark, toggles, reloads,
                themeAtUnload, themeAtMount, decorations>>
startupVars == <<hasRoot, rootCreated, renderCalls, startupError>>
skylineVars == <<seed, draws, generations, buildingCount, windowsPerBuilding,
                 buildings, memoClass>>
ageVars == <<hoje, evaluated, age>>
pageVars == <<themeVars, startupVars, skylineVars, ageVars>>
vars == <<scrollVars, sceneVars, pageVars>>

----------------------------------------------------------------------------
(* Bounds of the model *)

SubSteps   == 10    \* fixed-point units per restDelta
FrameHz    == 10    \* animation frames per second
MaxScrolls == 2     \* scroll events in one behaviour
Margin     == 3     \* restDeltas beyond [0,1] that SetProgress may feed
MaxToggles == 3     \* toggleTheme calls per page load
MaxReloads == 2     \* page reloads in one behaviour
MaxBuildings   == 2 \* largest buildingCount passed to generateBuildings
MaxWindows     == 2 \* largest windowsPerBuilding passed to generateBuildings
MaxGenerations == 1 \* generateBuildings calls on the generator alone
MaxYears       == 2 \* years before and after the birth year a page is loaded in

(* Program constants *)

RestDeltaInv     == 1000   \* restDelta: 0.001
MobileBreakpoint == 768    \* window.innerWidth < 768

Scale     == RestDeltaInv * SubSteps
restDelta == Scale \div RestDeltaInv

\* The fraction pct/100 in fixed point.
Pct(pct) == (pct * Scale) \div 100
\* n CSS pixels in fixed point (translateY spans 100 px over one Scale).
Px(n) == n * (Scale \div 100)
\* n vh in fixed point (the wave enters over 100 vh).
Vh(n) == n * (Scale \div 100)

Abs(n) == IF n < 0 THEN -n ELSE n
\* Division rounding toward zero, as symmetric as floating point is.
Quot(a, b) == IF a >= 0 THEN a \div b ELSE -((-a) \div b)

Widths    == {MobileBreakpoint - 1, MobileBreakpoint}
RawValues == {Pct(0), Pct(50), Pct(100)}

----------------------------------------------------------------------------
(* useTransform(value, inputRange, outputRange): piecewise-linear lookup   *)
(* with the input clamped to the range (framer-motion's default).          *)

Clamp(lo, hi, v) == IF v < lo THEN lo ELSE IF v > hi THEN hi ELSE v

SegmentOfFirst(input, v) == 1

\* Index of the segment [input[i], input[i+1]] used for v: the first one
\* whose right end lies above v, the last segment otherwise.
SegmentOf(input, v) ==
    LET candidates == {i \in 1..(Len(input) - 2) : v < input[i + 1]}
    IN  IF candidates = {} THEN Len(input) - 1
        ELSE CHOOSE i \in candidates : \A j \in candidates : i <= j

\* mix(output[i], output[i+1], progress(input[i], input[i+1], v))
Mix(input, output, i, v) ==
    output[i] + Quot((output[i + 1] - output[i]) * (v - input[i]),
                     input[i + 1] - input[i])

InterpolateUnclamped(input, output, v) ==
    Mix(input, output, SegmentOf(input, v), v)

Interpolate(input, output, v) ==
    LET c == Clamp(input[1], input[Len(input)], v)
    IN  Mix(input, output, SegmentOf(input, c), c)

\* The breakpoint tables (inputRange, outputRange) of the transforms.
Opacity1Input        == <<Pct(0), Pct(15), Pct(25)>>
Opacity1Output       == <<Scale, Scale, 0>>
Opacity3Input        == <<Pct(45), Pct(55), Pct(60), Pct(65)>>
Opacity3Output       == <<0, Scale, Scale, 0>>
Opacity4Input        == <<Pct(65), Pct(75)>>
Opacity4Output       == <<0, Scale>>
TranslateY1Input     == <<Pct(0), Pct(25)>>
TranslateY1Output    == <<Px(0), Px(-100)>>
ContentOpacityInput  == <<Pct(25), Pct(30), Pct(35), Pct(40)>>
ContentOpacityOutput == <<0, Scale, Scale, 0>>
WaveYInput           == <<Pct(20), Pct(30), Pct(35), Pct(45)>>
WaveYOutput          == <<Vh(100), Vh(0), Vh(0), Vh(-120)>>

SceneOpacity1Late(progress) ==
    Interpolate(<<Pct(0), Pct(15), Pct(35)>>, Opacity1Output, progress)

\* useScrollProgress: the transforms of smoothProgress
SceneOpacity1(progress) == Interpolate(Opacity1Input, Opacity1Output, progress)

SceneOpacity3FromHalf(progress) ==
    Interpolate(<<Pct(50), Pct(55), Pct(60), Pct(65)>>, Opacity3Output, progress)

SceneOpacity3(progress) == Interpolate(Opacity3Input, Opacity3Output, progress)

Scene3PointerEventsAtLeast(value) ==
    IF value * 10 >= Scale THEN "auto" ELSE "none"

Scene3PointerEvents(value) == IF value * 10 > Scale THEN "auto" ELSE "none"

SceneOpacity4Early(progress) ==
    Interpolate(<<Pct(60), Pct(75)>>, Opacity4Output, progress)

SceneOpacity4Swapped(progress) ==
    Interpolate(Opacity4Input, <<Scale, 0>>, progress)

SceneOpacity4(progress) == Interpolate(Opacity4Input, Opacity4Output, progress)

Scene1TranslateY(progress) ==
    Interpolate(TranslateY1Input, TranslateY1Output, progress)

ContentOpacityNoHold(progress) ==
    Interpolate(ContentOpacityInput, <<0, Scale, 0, 0>>, progress)

\* WaveTransition: opacity of the marquee inside the wave
ContentOpacity(progress) ==
    Interpolate(ContentOpacityInput, ContentOpacityOutput, progress)

WaveYEarlier(progress) ==
    Interpolate(WaveYInput, <<Vh(100), Vh(0), Vh(0), Vh(-118)>>, progress)

\* WaveTransition: vertical position of the wave
WaveY(progress) == Interpolate(WaveYInput, WaveYOutput, progress)

SunOpacityInput   == <<Pct(20), Pct(30)>>
SunOpacityOutput  == <<Scale, 0>>
CityOpacityInput  == <<Pct(35), Pct(50)>>
CityOpacityOutput == <<0, Scale>>

SunOpacity(progress) ==
    Interpolate(SunOpacityInput, SunOpacityOutput, progress)

CityOpacityEarly(progress) ==
    Interpolate(<<Pct(25), Pct(50)>>, CityOpacityOutput, progress)

CityOpacity(progress) ==
    Interpolate(CityOpacityInput, CityOpacityOutput, progress)

ContactPointerEventsFollowsOpacity(opacity) ==
    IF opacity * 10 > Scale THEN "auto" ELSE "none"

\* The content of the contact section carries the class pointer-events-auto
\* whatever opacity it is given.
ContactPointerEvents(opacity) == "auto"

UpdateScenesFromRaw(progress) ==
    /\ sceneOpacity1' = SceneOpacity1(raw)
    /\ scene1TranslateY' = Scene1TranslateY(raw)
    /\ sceneOpacity3' = SceneOpacity3(raw)
    /\ scene3PointerEvents' = Scene3PointerEvents(sceneOpacity3')
    /\ sceneOpacity4' = SceneOpacity4(raw)
    /\ contentOpacity' = ContentOpacity(raw)
    /\ waveY' = WaveY(raw)
    /\ sunOpacity' = SunOpacity(raw)
    /\ cityOpacity' = CityOpacity(raw)
    /\ contactPointerEvents' = ContactPointerEvents(sceneOpacity4')

\* Every transform subscribed to the progress value is recomputed from it;
\* scene3PointerEvents is a transform of sceneOpacity3.
UpdateScenes(progress) ==
    /\ sceneOpacity1' = SceneOpacity1(progress)
    /\ scene1TranslateY' = Scene1TranslateY(progress)
    /\ sceneOpacity3' = SceneOpacity3(progress)
    /\ scene3PointerEvents' = Scene3PointerEvents(sceneOpacity3')
    /\ sceneOpacity4' = SceneOpacity4(progress)
    /\ contentOpacity' = ContentOpacity(progress)
    /\ waveY' = WaveY(progress)
    /\ sunOpacity' = SunOpacity(progress)
    /\ cityOpacity' = CityOpacity(progress)
    /\ contactPointerEvents' = ContactPointerEvents(sceneOpacity4')

\* The transforms' values when the hooks first render with progress 0.
SceneInit ==
    /\ sceneOpacity1 = SceneOpacity1(0)
    /\ scene1TranslateY = Scene1TranslateY(0)
    /\ sceneOpacity3 = SceneOpacity3(0)
    /\ scene3PointerEvents = Scene3PointerEvents(sceneOpacity3)
    /\ sceneOpacity4 = SceneOpacity4(0)
    /\ contentOpacity = ContentOpacity(0)
    /\ waveY = WaveY(0)
    /\ sunOpacity = SunOpacity(0)
    /\ cityOpacity = CityOpacity(0)
    /\ contactPointerEvents = ContactPointerEvents(sceneOpacity4)

----------------------------------------------------------------------------
(* useSpring(scrollYProgress, {stiffness, damping, restDelta}): a unit-mass *)
(* damped spring pulling smoothProgress towards scrollYProgress, advanced  *)
(* once per animation frame by an implicit Euler step of 1/FrameHz s.      *)

IsMobile(width) == width < MobileBreakpoint
Stiffness(width) == IF IsMobile(width) THEN 50 ELSE 100
DampingTenth(width) == IF IsMobile(width) THEN 2 ELSE 3

DampingLight(width) == IF IsMobile(width) THEN 5 ELSE 6

Damping(width) == IF IsMobile(width) THEN 25 ELSE 30

StepVelocityNoForce(width, target, x, v) ==
    Quot(v * FrameHz * FrameHz,
         FrameHz * FrameHz + Damping(width) * FrameHz + Stiffness(width))

StepVelocity(width, target, x, v) ==
    Quot(v * FrameHz * FrameHz + FrameHz * Stiffness(width) * (target - x),
         FrameHz * FrameHz + Damping(width) * FrameHz + Stiffness(width))

StepPosition(x, v1) == x + Quot(v1, FrameHz)

\* The spring is done once the displacement is within restDelta and the
\* value moves less than restDelta per frame.
AtRest(target, x, v) ==
    /\ Abs(target - x) <= restDelta
    /\ Abs(v) <= restDelta * FrameHz

SpringRunsAlways == TRUE

SpringActive == smoothed # raw \/ velocity # 0

\* App has rendered, so its hooks exist.
Mounted == phase \in {"rendered", "idle"}

ScrollInit ==
    /\ innerWidth \in Widths
    /\ raw = 0
    /\ smoothed = 0
    /\ velocity = 0
    /\ scrolls = 0
    /\ restStart = TRUE

\* A scroll event: scrollYProgress takes the new normalized offset.
Scroll(offset) ==
    /\ Mounted
    /\ scrolls < MaxScrolls
    /\ offset # raw
    /\ raw' = offset
    /\ scrolls' = scrolls + 1
    /\ restStart' = ~SpringActive
    /\ UNCHANGED <<innerWidth, smoothed, velocity, sceneVars, pageVars>>

\* An animation frame while the spring is running: one step, snapping to
\* the target when the spring comes to rest; the transforms follow.
Tick ==
    /\ Mounted
    /\ SpringActive
    /\ LET v1 == StepVelocity(innerWidth, raw, smoothed, velocity)
           x1 == StepPosition(smoothed, v1)
       IN  /\ smoothed' = IF AtRest(raw, x1, v1) THEN raw ELSE x1
           /\ velocity' = IF AtRest(raw, x1, v1) THEN 0 ELSE v1
           /\ UpdateScenes(smoothed')
    /\ UNCHANGED <<innerWidth, raw, scrolls, restStart, pageVars>>

\* The progress value is set directly (the transform layer on its own).
SetProgress(f) ==
    /\ f # smoothed
    /\ smoothed' = f
    /\ UpdateScenes(f)
    /\ UNCHANGED <<innerWidth, raw, velocity, scrolls, restStart, pageVars>>

InputGrid == (0 - Margin * restDelta)..(Scale + Margin * restDelta)
\* From f the progress moves to a neighbouring value or jumps to a multiple
\* of 5%.
NextInputs(f) ==
    {g \in {f - 1, f + 1} : g \in InputGrid} \cup {Pct(5 * n) : n \in 0..20}

----------------------------------------------------------------------------
(* buildingGenerator: Math.random() is the next value of a tape of uniform  *)
(* draws in [0,1); the tape is fixed by the state of the random source.     *)
(* Heights are percentages in fixed point (h is stored as h * Scale).       *)

NoItem == "(no item)"

\* The draws a tape is made of: 0, the two thresholds, the value next above
\* each threshold, and the largest value below 1.
DrawValues == <<0, Pct(60), Pct(60) + 1, Pct(80), Pct(80) + 1, Scale - 1>>

Seeds == [start : 0..(Len(DrawValues) - 1), stride : 0..(Len(DrawValues) - 1)]

\* The value of the call number pos (from 0) of Math.random().
Tape(sd, pos) == DrawValues[((sd.start + pos * sd.stride) % Len(DrawValues)) + 1]

\* Math.random() calls of one generateBuilding(id, windowCount).
DrawsPerBuilding(windowCount) == 2 + 2 * windowCount

\* Positions on the tape of the calls made for building index (from 1) and
\* its window j (from 1), when the generateBuildings call started at first
\* and gave each building windowCount windows: the fields of the object
\* literals are evaluated in the order they are written.
HeightDraw(first, windowCount, index) ==
    first + (index - 1) * DrawsPerBuilding(windowCount)
LitDraw(first, windowCount, index, j) ==
    HeightDraw(first, windowCount, index) + 1 + 2 * (j - 1)
OpacityDraw(first, windowCount, index, j) ==
    LitDraw(first, windowCount, index, j) + 1
AntennaDraw(first, windowCount, index) ==
    HeightDraw(first, windowCount, index) + 1 + 2 * windowCount

GenerateWindowSharedDraw(id, pos) ==
    [id |-> id,
     isYellow |-> Tape(seed, pos) * 10 > Scale * 8,
     opacity |-> Tape(seed, pos)]

\* generateWindow(id), its first Math.random() call being number pos
GenerateWindow(id, pos) ==
    [id |-> id,
     isYellow |-> Tape(seed, pos) * 10 > Scale * 8,
     opacity |-> Tape(seed, pos + 1)]

GenerateWindowsFromOne(count, pos) ==
    [index \in 1..count |-> GenerateWindow(index, pos + 2 * (index - 1))]

GenerateWindows(count, pos) ==
    [index \in 1..count |-> GenerateWindow(index - 1, pos + 2 * (index - 1))]

GenerateBuildingTall(id, windowCount, pos) ==
    [id |-> id,
     height |-> 20 * Scale + Tape(seed, pos) * 80,
     windows |-> GenerateWindows(windowCount, pos + 1),
     hasAntenna |-> Tape(seed, pos + 1 + 2 * windowCount) * 10 > Scale * 6]

GenerateBuilding(id, windowCount, pos) ==
    [id |-> id,
     height |-> 20 * Scale + Tape(seed, pos) * 60,
     windows |-> GenerateWindows(windowCount, pos + 1),
     hasAntenna |-> Tape(seed, pos + 1 + 2 * windowCount) * 10 > Scale * 6]

GenerateBuildings(count, windowCount, pos) ==
    [index \in 1..count |->
        GenerateBuilding(index - 1, windowCount,
                         pos + (index - 1) * DrawsPerBuilding(windowCount))]

\* CitySkyline: the viewport class behind its isMobile prop, and the sizes
\* it asks the generator for.
ViewportClass(width) == IF IsMobile(width) THEN "mobile" ELSE "desktop"
SkylineBuildingCount(class) == IF class = "mobile" THEN 8 ELSE 15
SkylineWindowsPerBuilding(class) == IF class = "mobile" THEN 6 ELSE 12

\* The random sources of the pages that are followed through their loads.
PageSeeds == {sd \in Seeds : sd.stride = 1 /\ sd.start < 2}

\* No list has been generated.
SkylineUnset ==
    /\ draws = 0
    /\ generations = 0
    /\ buildingCount = 0
    /\ windowsPerBuilding = 0
    /\ buildings = <<>>
    /\ memoClass = NoItem

\* The list a page rendered at innerWidth holds, generated by the first
\* Math.random() calls of the source sd.
SkylineRendered(sd) ==
    /\ seed = sd
    /\ memoClass = ViewportClass(innerWidth)
    /\ buildingCount = SkylineBuildingCount(memoClass)
    /\ windowsPerBuilding = SkylineWindowsPerBuilding(memoClass)
    /\ buildings = GenerateBuildings(buildingCount, windowsPerBuilding, 0)
    /\ draws = buildingCount * DrawsPerBuilding(windowsPerBuilding)
    /\ generations = 1

RenderSkylineUnmemoized(width) ==
    LET class == ViewportClass(width)
        count == SkylineBuildingCount(class)
        windowCount == SkylineWindowsPerBuilding(class)
    IN  /\ memoClass' = class
        /\ buildingCount' = count
        /\ windowsPerBuilding' = windowCount
        /\ buildings' = GenerateBuildings(count, windowCount, draws)
        /\ draws' = draws + count * DrawsPerBuilding(windowCount)
        /\ generations' = generations + 1
        /\ UNCHANGED seed

\* A render of CitySkyline in a window of the given width:
\* useMemo(() => generateBuildings(...), [isMobile]) computes the list again
\* only when isMobile differs from the one of the previous render.
RenderSkyline(width) ==
    LET class == ViewportClass(width)
        count == SkylineBuildingCount(class)
        windowCount == SkylineWindowsPerBuilding(class)
    IN  IF memoClass = class
        THEN UNCHANGED skylineVars
        ELSE /\ memoClass' = class
             /\ buildingCount' = count
             /\ windowsPerBuilding' = windowCount
             /\ buildings' = GenerateBuildings(count, windowCount, draws)
             /\ draws' = draws + count * DrawsPerBuilding(windowCount)
             /\ generations' = generations + 1
             /\ UNCHANGED seed

\* A call generateBuildings(count, windowCount) on the generator alone.
GenerateBuildingsCall(count, windowCount) ==
    /\ generations < MaxGenerations
    /\ buildings' = GenerateBuildings(count, windowCount, draws)
    /\ draws' = draws + count * DrawsPerBuilding(windowCount)
    /\ buildingCount' = count
    /\ windowsPerBuilding' = windowCount
    /\ generations' = generations + 1
    /\ UNCHANGED <<ageVars, seed, memoClass, themeVars, startupVars, scrollVars,
                   sceneVars>>

----------------------------------------------------------------------------
(* constants/portfolio: calcularIdade. A date is what getFullYear(),       *)
(* getMonth() (0 = January) and getDate() give for it.                     *)

\* new Date(2000, 1, 14)
nascimento == [year |-> 2000, month |-> 1, day |-> 14]

IsLeapYear(y) == (y % 4 = 0 /\ y % 100 # 0) \/ y % 400 = 0
DaysInMonth(y, m) ==
    IF m = 1 THEN (IF IsLeapYear(y) THEN 29 ELSE 28)
    ELSE IF m \in {3, 5, 8, 10} THEN 30 ELSE 31

\* The dates new Date() can give.
Dates ==
    {dt \in [year : (nascimento.year - MaxYears)..(nascimento.year + MaxYears),
             month : 0..11, day : 1..31] :
        dt.day <= DaysInMonth(dt.year, dt.month)}

CalcularIdadeDayIncluded(today) ==
    LET idade == today.year - nascimento.year
        mes == today.month - nascimento.month
    IN  IF mes < 0 \/ (mes = 0 /\ today.day <= nascimento.day)
        THEN idade - 1 ELSE idade

\* calcularIdade(), new Date() giving today
CalcularIdade(today) ==
    LET idade == today.year - nascimento.year
        mes == today.month - nascimento.month
    IN  IF mes < 0 \/ (mes = 0 /\ today.day < nascimento.day)
        THEN idade - 1 ELSE idade

\* The module has been evaluated on the day of birth.
AgeSettled ==
    /\ hoje = nascimento
    /\ evaluated = TRUE
    /\ age = CalcularIdade(hoje)

\* The module is evaluated: PERSONAL_INFO takes age: calcularIdade().
EvaluatePortfolio ==
    /\ ~evaluated
    /\ evaluated' = TRUE
    /\ age' = CalcularIdade(hoje)
    /\ UNCHANGED <<hoje, scrollVars, sceneVars, themeVars, startupVars,
                   skylineVars>>

----------------------------------------------------------------------------
(* useTheme *)

StoredValues == {NoItem, "light", "dark", "blue", ""}

GetInitialThemeSystemFirst(savedTheme, systemDark) ==
    IF systemDark THEN "dark"
    ELSE IF savedTheme = "light" \/ savedTheme = "dark" THEN savedTheme
    ELSE "light"

GetInitialThemeSystemOnly(savedTheme, systemDark) ==
    IF systemDark THEN "dark" ELSE "light"

GetInitialThemeDarkOnly(savedTheme, systemDark) ==
    IF savedTheme = "dark" \/ systemDark THEN "dark" ELSE "light"

GetInitialTheme(savedTheme, systemDark) ==
    IF savedTheme = "light" \/ savedTheme = "dark" THEN savedTheme
    ELSE IF systemDark THEN "dark" ELSE "light"

ToggleValueToDark(prevTheme) == "dark"

ToggleValue(prevTheme) == IF prevTheme = "light" THEN "dark" ELSE "light"

\* What each theme-specific decoration renders for the theme it is given.
HelicopterAnyTheme(th) == {"Helicopter"}

Helicopter(th) == IF th # "light" THEN {} ELSE {"Helicopter"}
Clouds(th)     == IF th # "light" THEN {} ELSE {"Clouds"}
Airplane(th)   == IF th # "dark" THEN {} ELSE {"Airplane"}
BeachStars(th) == IF th # "dark" THEN {} ELSE {"BeachStars"}
CityStars(th)  == IF th # "dark" THEN {} ELSE {"CityStars"}

LightOnly == {"Helicopter", "Clouds"}
DarkOnly  == {"Airplane", "BeachStars", "CityStars"}

\* The background renders every decoration with the theme of App.
RenderDecorations(th) ==
    Helicopter(th) \cup Clouds(th) \cup Airplane(th) \cup BeachStars(th)
        \cup CityStars(th)

RootMissing == "Could not find root element to mount to"

\* The page before its entry point runs: nothing of the theme is set yet.
ThemeLoading ==
    /\ phase = "start"
    /\ hasRoot \in BOOLEAN
    /\ rootCreated = FALSE
    /\ renderCalls = 0
    /\ startupError = NoItem
    /\ theme = "light"
    /\ dataTheme = NoItem
    /\ decorations = {}
    /\ storage \in StoredValues
    /\ prefersDark \in BOOLEAN
    /\ toggles = 0
    /\ reloads = 0
    /\ themeAtUnload = NoItem
    /\ themeAtMount = NoItem

\* A page whose theme effect has run.
ThemeSettled ==
    /\ phase = "idle"
    /\ hasRoot = TRUE
    /\ rootCreated = TRUE
    /\ renderCalls = 1
    /\ startupError = NoItem
    /\ theme \in {"light", "dark"}
    /\ dataTheme = theme
    /\ decorations = RenderDecorations(theme)
    /\ storage = theme
    /\ prefersDark = FALSE
    /\ toggles = 0
    /\ reloads = 0
    /\ themeAtUnload = NoItem
    /\ themeAtMount = theme

StartupUnchecked ==
    /\ phase = "start"
    /\ rootCreated' = TRUE
    /\ renderCalls' = renderCalls + 1
    /\ phase' = "loading"
    /\ UNCHANGED <<ageVars, theme, storage, dataTheme, prefersDark, toggles, reloads,
                   themeAtUnload, themeAtMount, decorations, hasRoot, startupError, scrollVars, sceneVars, skylineVars>>

\* The entry point: without the mount point it throws and the script ends;
\* with it the React root is created and asked to render <App />.
Startup ==
    /\ phase = "start"
    /\ IF ~hasRoot
       THEN /\ startupError' = RootMissing
            /\ phase' = "failed"
            /\ UNCHANGED <<rootCreated, renderCalls>>
       ELSE /\ rootCreated' = TRUE
            /\ renderCalls' = renderCalls + 1
            /\ phase' = "loading"
            /\ UNCHANGED startupError
    /\ UNCHANGED <<ageVars, theme, storage, dataTheme, prefersDark, toggles, reloads,
                   themeAtUnload, themeAtMount, decorations, hasRoot, scrollVars, sceneVars, skylineVars>>

\* First render of App in a window of the given width:
\* useState(getInitialTheme), the background with its skyline and
\* decorations; the theme effect is scheduled.
Mount(width) ==
    /\ phase = "loading"
    /\ theme' = GetInitialTheme(storage, prefersDark)
    /\ themeAtMount' = theme'
    /\ innerWidth' = width
    /\ RenderSkyline(width)
    /\ decorations' = RenderDecorations(theme')
    /\ phase' = "rendered"
    /\ UNCHANGED <<ageVars, storage, dataTheme, prefersDark, toggles, reloads,
                   themeAtUnload, startupVars, raw, smoothed, velocity,
                   scrolls, restStart, sceneVars>>

ThemeEffectKeepsItem ==
    /\ phase = "rendered"
    /\ dataTheme' = theme
    /\ storage' = IF storage = NoItem THEN theme ELSE storage
    /\ phase' = "idle"
    /\ UNCHANGED <<ageVars, theme, prefersDark, toggles, reloads,
                   themeAtUnload, themeAtMount, decorations, startupVars, scrollVars,
                   sceneVars, skylineVars>>

ThemeEffectNoSave ==
    /\ phase = "rendered"
    /\ dataTheme' = theme
    /\ phase' = "idle"
    /\ UNCHANGED <<ageVars, theme, storage, prefersDark, toggles, reloads,
                   themeAtUnload, themeAtMount, decorations, startupVars, scrollVars,
                   sceneVars, skylineVars>>

\* useEffect(..., [theme]): data-theme and localStorage take the theme.
ThemeEffect ==
    /\ phase = "rendered"
    /\ dataTheme' = theme
    /\ storage' = theme
    /\ phase' = "idle"
    /\ UNCHANGED <<ageVars, theme, prefersDark, toggles, reloads, themeAtUnload, themeAtMount,
                   decorations, startupVars, scrollVars, sceneVars,
                   skylineVars>>

\* toggleTheme in a window of the given width: pending effects of the
\* previous render are flushed before the state update renders App again,
\* and the new render schedules the effect.
ToggleTheme(width) ==
    /\ Mounted
    /\ toggles < MaxToggles
    /\ theme' = ToggleValue(theme)
    /\ dataTheme' = IF phase = "rendered" THEN theme ELSE dataTheme
    /\ storage' = IF phase = "rendered" THEN theme ELSE storage
    /\ innerWidth' = width
    /\ RenderSkyline(width)
    /\ decorations' = RenderDecorations(theme')
    /\ phase' = "rendered"
    /\ toggles' = toggles + 1
    /\ UNCHANGED <<ageVars, prefersDark, reloads, themeAtUnload, themeAtMount, startupVars, raw,
                   smoothed, velocity, scrolls, restStart, sceneVars>>

\* The user changes the system colour scheme.
SystemPreferenceChange ==
    /\ prefersDark' = ~prefersDark
    /\ UNCHANGED <<ageVars, phase, theme, storage, dataTheme, toggles, reloads,
                   themeAtUnload, themeAtMount, decorations, startupVars, scrollVars,
                   sceneVars, skylineVars>>

\* The page is loaded again: only localStorage, the system and the document
\* survive; the new document is at its top and has a random source of its
\* own.
Reload ==
    /\ phase \in {"idle", "failed"}
    /\ reloads < MaxReloads
    /\ phase' = "start"
    /\ theme' = "light"
    /\ dataTheme' = NoItem
    /\ decorations' = {}
    /\ toggles' = 0
    /\ reloads' = reloads + 1
    /\ themeAtUnload' = IF phase = "idle" THEN theme ELSE themeAtUnload
    /\ themeAtMount' = NoItem
    /\ rootCreated' = FALSE
    /\ renderCalls' = 0
    /\ startupError' = NoItem
    /\ memoClass' = NoItem
    /\ buildings' = <<>>
    /\ buildingCount' = 0
    /\ windowsPerBuilding' = 0
    /\ generations' = 0
    /\ raw' = 0
    /\ smoothed' = 0
    /\ velocity' = 0
    /\ restStart' = TRUE
    /\ UpdateScenes(0)
    /\ seed' \in PageSeeds
    /\ draws' = 0
    /\ UNCHANGED <<ageVars, storage, prefersDark, hasRoot, innerWidth, scrolls>>

----------------------------------------------------------------------------
(* Specifications *)

\* The scroll state of a rendered page.
Init ==
    /\ ScrollInit
    /\ SceneInit
    /\ ThemeSettled
    /\ SkylineRendered([start |-> 0, stride |-> 1])
    /\ AgeSettled

Next ==
    \/ \E offset \in RawValues : Scroll(offset)
    \/ Tick

Spec == Init /\ [][Next]_vars

\* Frames keep coming while the spring is running.
FairSpec == Spec /\ WF_vars(Tick)

\* The transform layer fed with every progress value of the grid.
MapInit ==
    /\ Init
    /\ innerWidth = MobileBreakpoint
    /\ theme = "light"

MapNext == \E f \in NextInputs(smoothed) : SetProgress(f)

MapSpec == MapInit /\ [][MapNext]_vars

\* The theme of a page from its first load on.
ThemeInit ==
    /\ ThemeLoading
    /\ SceneInit
    /\ ScrollInit
    /\ innerWidth = MobileBreakpoint
    /\ SkylineUnset
    /\ seed \in PageSeeds
    /\ AgeSettled

ThemeNext ==
    \/ Startup
    \/ \E width \in Widths : Mount(width)
    \/ ThemeEffect
    \/ \E width \in Widths : ToggleTheme(width)
    \/ SystemPreferenceChange
    \/ Reload

ThemeSpec == ThemeInit /\ [][ThemeNext]_vars

\* One page from its first load on, scrolled a little down while it is
\* rendered, toggled and loaded again.
PageInit ==
    /\ ThemeInit
    /\ hasRoot = TRUE
    /\ storage = NoItem
    /\ prefersDark = FALSE
    /\ seed = [start |-> 0, stride |-> 1]

PageNext ==
    \/ Startup
    \/ \E width \in Widths : Mount(width)
    \/ ThemeEffect
    \/ \E width \in Widths : ToggleTheme(width)
    \/ Reload
    \/ Scroll(Margin * restDelta)
    \/ Tick

PageSpec == PageInit /\ [][PageNext]_vars

\* The generator on its own, called with every small pair of counts on
\* every tape.
GenInit ==
    /\ ThemeLoading
    /\ storage = NoItem
    /\ prefersDark = FALSE
    /\ hasRoot = TRUE
    /\ SceneInit
    /\ ScrollInit
    /\ innerWidth = MobileBreakpoint
    /\ SkylineUnset
    /\ seed \in Seeds
    /\ AgeSettled

GenNext ==
    \E count \in 0..MaxBuildings, windowCount \in 0..MaxWindows :
        GenerateBuildingsCall(count, windowCount)

GenSpec == GenInit /\ [][GenNext]_vars

\* calcularIdade on its own, evaluated on every date of the range.
AgeInit ==
    /\ ThemeLoading
    /\ storage = NoItem
    /\ prefersDark = FALSE
    /\ hasRoot = TRUE
    /\ SceneInit
    /\ ScrollInit
    /\ innerWidth = MobileBreakpoint
    /\ SkylineUnset
    /\ seed = [start |-> 0, stride |-> 1]
    /\ hoje \in Dates
    /\ evaluated = FALSE
    /\ age = 0

AgeNext == EvaluatePortfolio

AgeSpec == AgeInit /\ [][AgeNext]_vars

----------------------------------------------------------------------------
(* Properties of the transform layer (MapSpec) *)

\* C1: Section 1 opacity never increases when the progress grows from a
\* value at or past 0.15, and it is 0 at every progress >= 0.25.
C1_Opacity1FadesOut ==
    /\ [](smoothed >= Pct(25) => sceneOpacity1 = 0)
    /\ [][(smoothed >= Pct(15) /\ smoothed' >= smoothed)
             => sceneOpacity1' <= sceneOpacity1]_vars

\* The fade of Section 1 is under way.
C1_Witness ==
    /\ smoothed > Pct(15) /\ smoothed < Pct(25)
    /\ sceneOpacity1 > 0 /\ sceneOpacity1 < Scale

\* At a breakpoint the transform has the table's value.
AtBreakpoint(input, output, value) ==
    \A i \in 1..Len(input) : smoothed = input[i] => value = output[i]

\* Below the first breakpoint and above the last the transform is flat.
FlatOutside(input, output, value) ==
    /\ smoothed <= input[1] => value = output[1]
    /\ smoothed >= input[Len(input)] => value = output[Len(input)]

\* The largest change of a table over one fixed-point unit of progress.
UnitStep(input, output) ==
    LET steps == {(Abs(output[i + 1] - output[i]) + input[i + 1] - input[i] - 1)
                     \div (input[i + 1] - input[i]) : i \in 1..(Len(input) - 1)}
    IN  CHOOSE m \in steps : \A n \in steps : n <= m

\* Moving the progress by one unit moves the transform by no more than the
\* table's steepest slope allows.
NoJump(input, output, old, new) ==
    Abs(smoothed' - smoothed) = 1 => Abs(new - old) <= UnitStep(input, output)

\* C2: every breakpoint table is met exactly at its breakpoints, the lookup
\* makes no jump between neighbouring progress values (so none at an
\* interior breakpoint), and outside the table's range it returns the first
\* or the last value.
C2_ContinuousAndClamped ==
    /\ [](/\ AtBreakpoint(Opacity1Input, Opacity1Output, sceneOpacity1)
          /\ AtBreakpoint(TranslateY1Input, TranslateY1Output, scene1TranslateY)
          /\ AtBreakpoint(Opacity3Input, Opacity3Output, sceneOpacity3)
          /\ AtBreakpoint(Opacity4Input, Opacity4Output, sceneOpacity4)
          /\ AtBreakpoint(ContentOpacityInput, ContentOpacityOutput, contentOpacity)
          /\ FlatOutside(Opacity1Input, Opacity1Output, sceneOpacity1)
          /\ FlatOutside(TranslateY1Input, TranslateY1Output, scene1TranslateY)
          /\ FlatOutside(Opacity3Input, Opacity3Output, sceneOpacity3)
          /\ FlatOutside(Opacity4Input, Opacity4Output, sceneOpacity4)
          /\ FlatOutside(ContentOpacityInput, ContentOpacityOutput, contentOpacity))
    /\ [][/\ NoJump(Opacity1Input, Opacity1Output, sceneOpacity1, sceneOpacity1')
          /\ NoJump(TranslateY1Input, TranslateY1Output,
                    scene1TranslateY, scene1TranslateY')
          /\ NoJump(Opacity3Input, Opacity3Output, sceneOpacity3, sceneOpacity3')
          /\ NoJump(Opacity4Input, Opacity4Output, sceneOpacity4, sceneOpacity4')
          /\ NoJump(ContentOpacityInput, ContentOpacityOutput,
                    contentOpacity, contentOpacity')]_vars

\* The progress sits on the interior breakpoint 0.6 of Section 3, between a
\* plateau and a fade.
C2_Witness == smoothed = Opacity3Input[3] /\ sceneOpacity3 = Opacity3Output[3]

\* C4: Section 3 accepts pointer events exactly when its opacity is
\* strictly greater than 0.1.
C4_InteractiveIffVisible ==
    (scene3PointerEvents = "auto") <=> (sceneOpacity3 * 10 > Scale)

\* Section 3 at opacity exactly 0.1 is not interactive.
C4_Witness ==
    /\ smoothed = Pct(46)
    /\ sceneOpacity3 * 10 = Scale
    /\ scene3PointerEvents = "none"

\* C9: whatever the progress, inside [0,1] or not, the four opacities lie
\* in [0,1] and the translation of Section 1 in [-100, 0].
C9_OutputsInRange ==
    /\ sceneOpacity1 \in 0..Scale
    /\ sceneOpacity3 \in 0..Scale
    /\ sceneOpacity4 \in 0..Scale
    /\ contentOpacity \in 0..Scale
    /\ scene1TranslateY \in Px(-100)..Px(0)

\* The progress lies above 1 and the transforms have followed it.
C9_Witness ==
    smoothed > Scale /\ sceneOpacity4 = Scale /\ scene1TranslateY = Px(-100)

\* C19: the wave's vertical position follows the table
\* (0.2, 0.3, 0.35, 0.45) -> (100vh, 0, 0, -120vh): 100vh at every progress
\* up to 0.2, 0 from 0.3 to 0.35, -120vh from 0.45 on, and halfway between
\* the table's values halfway between its breakpoints.
C19_WavePosition ==
    /\ smoothed <= Pct(20) => waveY = Vh(100)
    /\ smoothed = Pct(25) => waveY = Vh(50)
    /\ (smoothed >= Pct(30) /\ smoothed <= Pct(35)) => waveY = 0
    /\ smoothed = Pct(40) => waveY = Vh(-60)
    /\ smoothed >= Pct(45) => waveY = Vh(-120)

\* The wave has left the screen at a progress past 1.
C19_Witness ==
    /\ smoothed > Scale
    /\ waveY = Vh(-120)

\* C22: the hold plateaus are flat: Section 1 opacity is 1 at every progress
\* from 0 to 0.15, Section 3 opacity is 1 from 0.55 to 0.6, and the wave
\* content opacity is 1 from 0.3 to 0.35.
C22_PlateausFlat ==
    /\ (smoothed >= 0 /\ smoothed <= Pct(15)) => sceneOpacity1 = Scale
    /\ (smoothed >= Pct(55) /\ smoothed <= Pct(60)) => sceneOpacity3 = Scale
    /\ (smoothed >= Pct(30) /\ smoothed <= Pct(35)) => contentOpacity = Scale

\* The progress is strictly inside the plateau of the wave content.
C22_Witness ==
    /\ smoothed = Pct(35) - 1
    /\ contentOpacity = Scale

\* C25: at every progress at most one of Section 1, Section 3 and Section 4
\* has an opacity above 0: Section 1 only below 0.25, Section 3 only
\* strictly between 0.45 and 0.65, Section 4 only above 0.65; so whenever
\* Section 3 is interactive the other two are fully transparent.
C25_OneSectionVisible ==
    /\ sceneOpacity1 > 0 => smoothed < Pct(25)
    /\ sceneOpacity3 > 0 => (smoothed > Pct(45) /\ smoothed < Pct(65))
    /\ sceneOpacity4 > 0 => smoothed > Pct(65)
    /\ Cardinality({n \in {1, 3, 4} :
            <<sceneOpacity1, 0, sceneOpacity3, sceneOpacity4>>[n] > 0}) <= 1
    /\ scene3PointerEvents = "auto" =>
            (sceneOpacity1 = 0 /\ sceneOpacity4 = 0)

\* Section 3 is fading out and still interactive just before Section 4
\* starts to appear.
C25_Witness ==
    /\ smoothed = Pct(64) /\ scene3PointerEvents = "auto"
    /\ sceneOpacity3 > 0 /\ sceneOpacity3 < Scale
    /\ sceneOpacity1 = 0 /\ sceneOpacity4 = 0

C29_ContactAlwaysInteractive ==
    /\ contactPointerEvents = "auto"
    /\ contactPointerEvents = ContactPointerEvents(sceneOpacity4)
    /\ sceneOpacity4 = SceneOpacity4(smoothed)
    /\ scene3PointerEvents = Scene3PointerEvents(sceneOpacity3)

\* Section 4 and Section 3 are both fully transparent, Section 3 refuses
\* pointer events and the contact section accepts them.
C29_Witness ==
    /\ smoothed = Pct(30) /\ sceneOpacity4 = 0 /\ sceneOpacity3 = 0
    /\ scene3PointerEvents = "none" /\ contactPointerEvents = "auto"

----------------------------------------------------------------------------
(* Properties of the scroll state (Spec, FairSpec) *)

\* The spring has come to rest on the raw value.
Settled == smoothed = raw /\ velocity = 0

\* C3: raw changes finitely often, and from some frame on the smoothed
\* value stays within restDelta of it, on desktop and on mobile.
C3_SmoothedConverges == <>[](Abs(raw - smoothed) <= restDelta)

\* The mobile spring has come to rest on a raw value it had to chase.
C3_Witness ==
    /\ IsMobile(innerWidth)
    /\ scrolls > 0 /\ raw = Pct(100)
    /\ Settled

\* C5 as stated: settled at raw = 0.5, Section 1 has opacity 0, Section 3
\* opacity 1 and Section 4 opacity 0.
C5_Original ==
    (Settled /\ raw = Pct(50)) =>
        sceneOpacity1 = 0 /\ sceneOpacity3 = Scale /\ sceneOpacity4 = 0

\* C5 amended: settled at raw = 0.5, Section 1 has opacity 0, Section 3 is
\* halfway through its fade-in (opacity 0.5) and Section 4 has opacity 0.
C5_MidScroll ==
    (Settled /\ raw = Pct(50)) =>
        sceneOpacity1 = 0 /\ sceneOpacity3 * 2 = Scale /\ sceneOpacity4 = 0

\* The spring has settled on 0.5 after a scroll.
C5_Witness == Settled /\ raw = Pct(50) /\ scrolls > 0

\* C6: settled at raw = 0, Section 1 has opacity 1 and Sections 3 and 4
\* opacity 0; settled at raw = 1, Section 4 has opacity 1.
C6_EndsOfScroll ==
    /\ (Settled /\ raw = Pct(0)) =>
           sceneOpacity1 = Scale /\ sceneOpacity3 = 0 /\ sceneOpacity4 = 0
    /\ (Settled /\ raw = Pct(100)) => sceneOpacity4 = Scale

\* The page was scrolled to the bottom and back to the top, and has settled.
C6_Witness == Settled /\ raw = Pct(0) /\ scrolls = MaxScrolls

\* C7: raw and smoothed stay in [0,1].
C7_ProgressInUnitRange == raw \in 0..Scale /\ smoothed \in 0..Scale

\* The spring was retargeted in flight and is moving away from its target.
C7_Witness ==
    /\ scrolls = MaxScrolls
    /\ velocity > 0 /\ raw < smoothed /\ raw > 0

\* C8: the section values are those the transforms give for smoothed, so
\* they are the same in any two states with the same smoothed value.
C8_ScenesFollowSmoothed ==
    /\ sceneOpacity1 = SceneOpacity1(smoothed)
    /\ scene1TranslateY = Scene1TranslateY(smoothed)
    /\ sceneOpacity3 = SceneOpacity3(smoothed)
    /\ scene3PointerEvents = Scene3PointerEvents(SceneOpacity3(smoothed))
    /\ sceneOpacity4 = SceneOpacity4(smoothed)
    /\ contentOpacity = ContentOpacity(smoothed)

\* Dark theme, raw ahead of smoothed, the spring moving, Section 3 fading in.
C8_Witness ==
    /\ theme = "dark"
    /\ raw # smoothed /\ velocity # 0
    /\ sceneOpacity3 > 0 /\ sceneOpacity3 < Scale

\* smoothed is within the rest threshold of raw.
NearRest == Abs(raw - smoothed) <= restDelta

C23_NoOvershootFromRest ==
    /\ [](\A width \in Widths :
            Damping(width) * Damping(width) >= 4 * Stiffness(width))
    /\ [][(restStart /\ raw' = raw /\ smoothed <= raw) =>
            (smoothed' >= smoothed /\ smoothed' <= raw)]_vars
    /\ [][(restStart /\ raw' = raw /\ smoothed >= raw) =>
            (smoothed' <= smoothed /\ smoothed' >= raw)]_vars

\* On a narrow window the spring left its rest at a higher position and is
\* moving down to raw.
C23_Witness ==
    /\ IsMobile(innerWidth) /\ restStart /\ scrolls = MaxScrolls
    /\ raw > 0 /\ smoothed > raw /\ velocity < 0

----------------------------------------------------------------------------
(* Properties of the theme (ThemeSpec) *)

\* C10: the first render takes the stored theme when it is 'light' or
\* 'dark', otherwise 'dark' when the system prefers dark, otherwise 'light'.
C10_InitialThemePriority ==
    [][phase = "loading" /\ phase' # "loading" =>
          /\ storage \in {"light", "dark"} => theme' = storage
          /\ (storage \notin {"light", "dark"} /\ prefersDark) => theme' = "dark"
          /\ (storage \notin {"light", "dark"} /\ ~prefersDark) => theme' = "light"
      ]_vars

\* A page storing 'light' has rendered light although the system prefers dark.
C10_Witness ==
    /\ phase = "rendered" /\ toggles = 0 /\ reloads = 0
    /\ storage = "light" /\ prefersDark /\ theme = "light"

\* C11: once the theme effect has run for the latest change of the theme,
\* the 'theme' item of localStorage and the data-theme attribute of the
\* document root both equal the current theme, whatever toggles came before.
C11_EffectSyncsStorageAndAttribute ==
    phase = "idle" => (storage = theme /\ dataTheme = theme)

\* Two toggles after the first load of the page; the effect
\* of the second toggle has run.
C11_Witness ==
    /\ phase = "idle" /\ toggles = 2 /\ reloads = 0
    /\ storage = theme /\ dataTheme = theme

\* C12: the theme a reloaded page first renders with is the theme that was
\* in effect when the page was unloaded, whatever the toggles before the
\* reload and whatever the system preference at the reload.
C12_ThemeSurvivesReload ==
    (reloads > 0 /\ Mounted /\ toggles = 0) => theme = themeAtUnload

\* A page left in the dark theme is loaded again while the system prefers
\* light, and renders dark.
C12_Witness ==
    /\ reloads > 0 /\ phase = "rendered" /\ toggles = 0
    /\ ~prefersDark /\ themeAtUnload = "dark" /\ theme = "dark"

\* C13: without the element 'root' the entry point raises its error at once
\* and nothing further runs (no React root, no render of App, no theme set);
\* with the element, App is rendered exactly once into the root.
C13_MountPoint ==
    /\ []((~hasRoot /\ phase # "start") =>
            /\ phase = "failed" /\ startupError = RootMissing
            /\ ~rootCreated /\ renderCalls = 0 /\ dataTheme = NoItem)
    /\ []((hasRoot /\ phase # "start") =>
            /\ phase # "failed" /\ startupError = NoItem
            /\ rootCreated /\ renderCalls = 1)
    /\ [][phase = "failed" =>
            \/ phase' = "start"
            \/ UNCHANGED <<phase, theme, storage, dataTheme, startupVars>>]_vars

\* The page without a mount point has failed again after a reload.
C13_Witness ==
    /\ ~hasRoot /\ phase = "failed" /\ reloads > 0
    /\ startupError = RootMissing /\ ~rootCreated /\ renderCalls = 0

\* C20: Helicopter and Clouds are rendered only in the light theme,
\* Airplane, BeachStars and CityStars only in the dark theme, so no render
\* puts out a light-only decoration together with a dark-only one.
C20_DecorationsExclusive ==
    /\ (decorations \cap LightOnly # {}) => theme = "light"
    /\ (decorations \cap DarkOnly # {}) => theme = "dark"
    /\ decorations \cap LightOnly = {} \/ decorations \cap DarkOnly = {}

\* The dark decorations are out after the theme was toggled three times.
C20_Witness ==
    /\ toggles = MaxToggles /\ theme = "dark"
    /\ decorations = DarkOnly

\* C21: toggleTheme turns 'light' into 'dark' and 'dark' into 'light' and
\* gives no other value; two toggles in a row restore the theme, so after
\* n toggles the theme is the one of the first render exactly when n is
\* even.
C21_ToggleParity ==
    /\ [](Mounted =>
            /\ theme \in {"light", "dark"}
            /\ (theme = themeAtMount) <=> (toggles % 2 = 0))
    /\ [][toggles' = toggles + 1 =>
            /\ theme = "light" => theme' = "dark"
            /\ theme = "dark" => theme' = "light"]_vars
    /\ [](ToggleValue(ToggleValue(theme)) = theme)

\* Three toggles after a dark first render have left the page light.
C21_Witness ==
    /\ Mounted /\ toggles = MaxToggles
    /\ themeAtMount = "dark" /\ theme = "light"

ValidThemes == {"light", "dark"}

----------------------------------------------------------------------------
(* Properties of the scene generator (GenSpec) and of the skyline that    *)
(* keeps its list (PageSpec)                                               *)

\* The first Math.random() call of the latest generateBuildings call.
FirstDraw == draws - buildingCount * DrawsPerBuilding(windowsPerBuilding)

\* C14: every building the generator returns, whatever the uniform draw
\* behind it, has a height of at least 20 and at most 80.
C14_HeightInRange ==
    \A index \in DOMAIN buildings :
        /\ buildings[index].height >= 20 * Scale
        /\ buildings[index].height <= 80 * Scale

\* A full list holds a building that came from the largest draw below 1.
C14_Witness ==
    /\ Len(buildings) = MaxBuildings
    /\ \E index \in DOMAIN buildings :
          /\ Tape(seed, HeightDraw(FirstDraw, windowsPerBuilding, index))
                = Scale - 1
          /\ buildings[index].height = 80 * Scale - 60

\* C15: generateBuildings(buildingCount, windowsPerBuilding) returns
\* buildingCount buildings with the ids 0..buildingCount-1 in order, each
\* with windowsPerBuilding windows with the ids 0..windowsPerBuilding-1 in
\* order; a count of 0 gives the empty list.
C15_CountsAndIds ==
    generations > 0 =>
        /\ Len(buildings) = buildingCount
        /\ buildingCount = 0 => buildings = <<>>
        /\ \A index \in 1..Len(buildings) :
              /\ buildings[index].id = index - 1
              /\ Len(buildings[index].windows) = windowsPerBuilding
              /\ windowsPerBuilding = 0 => buildings[index].windows = <<>>
              /\ \A j \in 1..Len(buildings[index].windows) :
                    buildings[index].windows[j].id = j - 1

\* The largest call has returned.
C15_Witness ==
    /\ generations > 0
    /\ Len(buildings) = MaxBuildings
    /\ Len(buildings[MaxBuildings].windows) = MaxWindows
    /\ buildings[MaxBuildings].windows[MaxWindows].id = MaxWindows - 1

\* The calls of Math.random() behind the fields of the latest list.
DrawsUsed ==
    {HeightDraw(FirstDraw, windowsPerBuilding, index) :
        index \in DOMAIN buildings}
    \cup {AntennaDraw(FirstDraw, windowsPerBuilding, index) :
        index \in DOMAIN buildings}
    \cup {LitDraw(FirstDraw, windowsPerBuilding, index, j) :
        index \in DOMAIN buildings, j \in 1..windowsPerBuilding}
    \cup {OpacityDraw(FirstDraw, windowsPerBuilding, index, j) :
        index \in DOMAIN buildings, j \in 1..windowsPerBuilding}

\* C16: a window is lit exactly when its draw is above 0.8, a building has
\* an antenna exactly when its draw is above 0.6, a window's opacity is its
\* own draw and so within [0,1]; every such field has a draw of its own.
C16_DrawsDecideFields ==
    /\ \A index \in DOMAIN buildings :
          /\ buildings[index].hasAntenna <=>
                Tape(seed, AntennaDraw(FirstDraw, windowsPerBuilding, index)) * 10
                    > 6 * Scale
          /\ \A j \in DOMAIN buildings[index].windows :
                LET window == buildings[index].windows[j]
                    lit == LitDraw(FirstDraw, windowsPerBuilding, index, j)
                    own == OpacityDraw(FirstDraw, windowsPerBuilding, index, j)
                IN  /\ window.isYellow <=> Tape(seed, lit) * 10 > 8 * Scale
                    /\ window.opacity = Tape(seed, own)
                    /\ window.opacity >= 0 /\ window.opacity <= Scale
    /\ Cardinality(DrawsUsed) = draws - FirstDraw

\* A window drawn exactly at 0.8 is not lit while its opacity draw is above
\* 0.8, and a building drawn exactly at 0.6 has no antenna.
C16_Witness ==
    /\ \E index \in DOMAIN buildings :
          \E j \in DOMAIN buildings[index].windows :
            /\ ~buildings[index].windows[j].isYellow
            /\ Tape(seed, LitDraw(FirstDraw, windowsPerBuilding, index, j))
                  = Pct(80)
            /\ buildings[index].windows[j].opacity > Pct(80)
    /\ \E index \in DOMAIN buildings :
          /\ ~buildings[index].hasAntenna
          /\ Tape(seed, AntennaDraw(FirstDraw, windowsPerBuilding, index))
                = Pct(60)

----------------------------------------------------------------------------
(* Properties of calcularIdade (AgeSpec) *)

\* today is on or after the day d of the calendar.
OnOrAfter(today, d) ==
    \/ today.year > d.year
    \/ today.year = d.year /\ today.month > d.month
    \/ today.year = d.year /\ today.month = d.month /\ today.day >= d.day

\* The n-th 14 February after the one of 2000.
Anniversary(n) == [nascimento EXCEPT !.year = nascimento.year + n]

\* C24: calcularIdade gives the full years elapsed since 14 February 2000:
\* the difference of the calendar years, less one exactly when today's
\* month and day are before 14 February; 14 February itself counts.
C24_FullYears ==
    evaluated =>
        LET before == \/ hoje.month < nascimento.month
                      \/ (hoje.month = nascimento.month
                            /\ hoje.day < nascimento.day)
        IN  /\ age = (hoje.year - nascimento.year) - (IF before THEN 1 ELSE 0)
            /\ OnOrAfter(hoje, Anniversary(age))
            /\ ~OnOrAfter(hoje, Anniversary(age + 1))

\* Loaded on 14 February 2001, the page shows the age 1.
C24_Witness ==
    /\ evaluated
    /\ hoje = Anniversary(1)
    /\ age = 1

====
